---- MODULE Spec2Model ----
(***************************************************************************)
(* Clawberto HyperSnap client: the Telegram session state machine          *)
(* (skills/telegram/handlers.ts), the callback-token codec                 *)
(* (skills/telegram/keyboards.ts) and the calls they make into the action  *)
(* layer (skills/post) and the view layer (skills/view); the action layer  *)
(* itself (skills/post, client/hypersnap.ts) and the loading of the        *)
(* signing identity (crypto/signer.ts).                                    *)
(*                                                                         *)
(* JavaScript strings are sequences of one-character strings; JavaScript   *)
(* numbers are records [nan, val] so that NaN is a value of its own.       *)
(***************************************************************************)
EXTENDS Integers, Sequences, FiniteSets, TLC

\* ------------------------------------------------------------------ bounds

\* Author ids (FIDs) the codec is exercised on: 0..MaxFid.
MaxFid == 12

\* Most casts a node read (getFeed, getReplies) returns in the model.
MaxCasts == 1

\* Large author ids the token builder is exercised on: 10^1..10^MaxFidExp
\* (10^15 is below Number.MAX_SAFE_INTEGER, 2^53 - 1).
MaxFidExp == 15

\* ------------------------------------------------------- program constants

\* keyboards.ts: hashHex.replace("0x", "").slice(0, 40)
ShortHashLen == 40

\* handlers.ts: getFeed(auth.client, fid, 5) and replies.slice(0, 5)
PageSize == 5

\* keyboards.ts: "Telegram callback data has a 64-byte limit."
CallbackDataLimit == 64

\* signer.ts: if (clean.length !== 64)
KeyHexChars == 64

\* ------------------------------------------------------------ JS numbers

Num(n) == [nan |-> FALSE, val |-> n]
NaN == [nan |-> TRUE, val |-> 0]

\* The number m * 10^k, for integers too large for 32-bit arithmetic.
Scaled(m, k) == [nan |-> FALSE, val |-> m, exp10 |-> k]
Exp10(x) == IF "exp10" \in DOMAIN x THEN x.exp10 ELSE 0

Digits == <<"0", "1", "2", "3", "4", "5", "6", "7", "8", "9">>
DigitSet == {Digits[i] : i \in 1..10}
DigitVal(c) == (CHOOSE i \in 1..10 : Digits[i] = c) - 1

HexDigitSet == DigitSet \cup {"a", "b", "c", "d", "e", "f"}

\* String.prototype.trim's white space, as far as the model's texts use it.
WhiteSpace == {" ", "\n", "\t"}

RECURSIVE Dec(_)
Dec(n) == IF n < 10 THEN <<Digits[n + 1]>>
          ELSE Dec(n \div 10) \o <<Digits[(n % 10) + 1]>>

\* `${fid}`: Number to string, for NaN and for integers below 1e21 (all
\* their decimal digits, no exponent).
NumToString(x) ==
    IF x.nan THEN <<"N", "a", "N">>
    ELSE IF x.val < 0 THEN <<"-">> \o Dec(-x.val)
    ELSE IF x.val = 0 THEN Dec(0)
    ELSE Dec(x.val) \o [i \in 1..Exp10(x) |-> "0"]

RECURSIVE TrimStart(_)
TrimStart(s) ==
    IF s # <<>> /\ Head(s) \in WhiteSpace THEN TrimStart(Tail(s)) ELSE s

RECURSIVE TrimEnd(_)
TrimEnd(s) ==
    IF s # <<>> /\ s[Len(s)] \in WhiteSpace
    THEN TrimEnd(SubSeq(s, 1, Len(s) - 1)) ELSE s

\* String.prototype.trim
Trim(s) == TrimEnd(TrimStart(s))

RECURSIVE LeadingDigits(_)
LeadingDigits(s) ==
    IF s # <<>> /\ Head(s) \in DigitSet
    THEN <<Head(s)>> \o LeadingDigits(Tail(s)) ELSE <<>>

RECURSIVE DecVal(_)
DecVal(d) ==
    IF d = <<>> THEN 0
    ELSE 10 * DecVal(SubSeq(d, 1, Len(d) - 1)) + DigitVal(d[Len(d)])

\* parseInt(str, 10): leading white space, an optional sign, then the longest
\* run of decimal digits; NaN when that run is empty.
ParseInt(str) ==
    LET t == TrimStart(str)
        signed == t # <<>> /\ Head(t) \in {"+", "-"}
        neg == t # <<>> /\ Head(t) = "-"
        d == LeadingDigits(IF signed THEN Tail(t) ELSE t)
    IN  IF d = <<>> THEN NaN
        ELSE Num(IF neg THEN 0 - DecVal(d) ELSE DecVal(d))

\* ------------------------------------------------------------ JS strings

\* String.prototype.split(sep) for a one-character separator: the fields
\* between the separators, always at least one.
RECURSIVE IndexOf(_, _, _)
IndexOf(s, c, i) ==
    IF i > Len(s) THEN 0 ELSE IF s[i] = c THEN i ELSE IndexOf(s, c, i + 1)

RECURSIVE Split(_, _)
Split(s, sep) ==
    LET k == IndexOf(s, sep, 1)
    IN  IF k = 0 THEN <<s>>
        ELSE <<SubSeq(s, 1, k - 1)>> \o Split(SubSeq(s, k + 1, Len(s)), sep)

\* String.prototype.replace("0x", ""): removes the FIRST occurrence of "0x",
\* wherever it is (the pattern is a plain string, not anchored).
Replace0x(s) ==
    LET hits == {i \in 1..(Len(s) - 1) : s[i] = "0" /\ s[i + 1] = "x"}
    IN  IF hits = {} THEN s
        ELSE LET k == CHOOSE i \in hits : \A j \in hits : i <= j
             IN  SubSeq(s, 1, k - 1) \o SubSeq(s, k + 2, Len(s))

\* String.prototype.slice(0, n)
Slice0(s, n) == SubSeq(s, 1, IF Len(s) < n THEN Len(s) ELSE n)

\* --------------------------------------------------- keyboards.ts: codec

LIKE == <<"l", "i", "k", "e">>
UNLIKE == <<"u", "n", "l", "i", "k", "e">>
RECAST == <<"r", "e", "c", "a", "s", "t">>
UNRECAST == <<"u", "n", "r", "e", "c", "a", "s", "t">>
REPLY == <<"r", "e", "p", "l", "y">>
QUOTE == <<"q", "u", "o", "t", "e">>
THREAD == <<"t", "h", "r", "e", "a", "d">>

\* type CastAction
CastAction == {LIKE, UNLIKE, RECAST, UNRECAST, REPLY, QUOTE, THREAD}

\* A slip: the hash is cut to 40 characters with its 0x prefix still on.
castCallbackData_keepsPrefix(action, fid, hashHex) ==
    action \o <<":">> \o NumToString(fid) \o <<":">>
        \o Slice0(hashHex, ShortHashLen)

castCallbackData(action, fid, hashHex) ==
    LET shortHash == Slice0(Replace0x(hashHex), ShortHashLen)
    IN  action \o <<":">> \o NumToString(fid) \o <<":">> \o shortHash

Null == [null |-> TRUE]

\* A slip: only too few fields are refused; extra fields are dropped.
parseCastCallback_lenient(data) ==
    LET parts == Split(data, ":")
    IN  IF Len(parts) < 3 THEN Null
        ELSE [action |-> parts[1],
              fid |-> ParseInt(parts[2]),
              hashHex |-> <<"0", "x">> \o parts[3]]

parseCastCallback(data) ==
    LET parts == Split(data, ":")
    IN  IF Len(parts) # 3 THEN Null
        ELSE [action |-> parts[1],
              fid |-> ParseInt(parts[2]),
              hashHex |-> <<"0", "x">> \o parts[3]]


\* The keyboards: the callback data of the five buttons of a cast, in
\* order (Like, Recast, Reply, Quote, Thread).
castKeyboard(fid, hashHex) ==
    <<castCallbackData(LIKE, fid, hashHex),
      castCallbackData(RECAST, fid, hashHex),
      castCallbackData(REPLY, fid, hashHex),
      castCallbackData(QUOTE, fid, hashHex),
      castCallbackData(THREAD, fid, hashHex)>>

castKeyboardLiked(fid, hashHex) ==
    <<castCallbackData(UNLIKE, fid, hashHex),
      castCallbackData(RECAST, fid, hashHex),
      castCallbackData(REPLY, fid, hashHex),
      castCallbackData(QUOTE, fid, hashHex),
      castCallbackData(THREAD, fid, hashHex)>>

castKeyboardRecast(fid, hashHex) ==
    <<castCallbackData(LIKE, fid, hashHex),
      castCallbackData(UNRECAST, fid, hashHex),
      castCallbackData(REPLY, fid, hashHex),
      castCallbackData(QUOTE, fid, hashHex),
      castCallbackData(THREAD, fid, hashHex)>>

\* A keyboard attached to an outgoing message: which builder was called on
\* which cast. Keyboard(kb) is the callback data it puts on the buttons.
NoKeyboard == [builder |-> "", fid |-> NaN, hashHex |-> <<>>]
Kb(builder, fid, hashHex) ==
    [builder |-> builder, fid |-> fid, hashHex |-> hashHex]

Keyboard(kb) ==
    CASE kb.builder = "castKeyboard" -> castKeyboard(kb.fid, kb.hashHex)
      [] kb.builder = "castKeyboardLiked" ->
           castKeyboardLiked(kb.fid, kb.hashHex)
      [] kb.builder = "castKeyboardRecast" ->
           castKeyboardRecast(kb.fid, kb.hashHex)
      [] OTHER -> <<>>

\* ------------------------------------------------------------ model inputs

\* Hex strings: n copies of the byte "ab", and the byte "cd" appended.
RECURSIVE HexBytes(_)
HexBytes(n) == IF n = 0 THEN <<>> ELSE <<"a", "b">> \o HexBytes(n - 1)

Ox(hex) == <<"0", "x">> \o hex

\* Cast hashes as bytesToHex prints them: 2, 20 and 32 bytes.
Hash2 == Ox(HexBytes(2))
Hash20 == Ox(HexBytes(ShortHashLen \div 2))
Hash32 == Ox(HexBytes(ShortHashLen \div 2) \o <<"c", "d">> \o HexBytes(11))

\* The casts the node serves and the bot displays with keyboards.
Casts == {[fid |-> Num(7), hashHex |-> Hash2],
          [fid |-> Num(42), hashHex |-> Hash32]}

\* Chats (grammY's session key is the chat) and Telegram users.
Convs == {"A", "B"}
Users == {1, 2}

\* Callback data the bot itself put on a button.
ButtonTokens ==
    {castCallbackData(a, c.fid, c.hashHex) : a \in CastAction, c \in Casts}

\* Callback data no button of this bot carries.
Bogus == <<"b", "o", "g", "u", "s">>
ForeignTokens ==
    {Bogus,
     LIKE \o <<":", "7", ":", "a", "b", ":", "c", "d">>,
     Bogus \o <<":", "4", "2", ":", "a", "b">>,
     LIKE \o <<":", "a", "b", "c", ":", "a", "b">>,
     REPLY \o <<":", "a", "b", "c", ":", "a", "b">>,
     LIKE \o <<":", "7", ":">>,
     UNLIKE \o <<":", "7", ":", "z", "z">>}

Tokens == ButtonTokens \cup ForeignTokens

\* Message texts: plain, padded with white space, white space only.
Nice == <<"n", "i", "c", "e">>
Texts == {Nice, <<" ">> \o Nice \o <<"\n">>, <<" ", " ">>}

\* Command arguments (ctx.match): none, a number, not a number.
Args == {<<>>, <<"4", "2">>, <<" ">>, <<"a", "b", "c">>}

\* auth.fid, loaded from FARCASTER_FID at startup.
AuthFid == Num(1)

\* What a node read returns: at most MaxCasts casts.
CastSeqs == UNION {[1..n -> Casts] : n \in 0..MaxCasts}

\* -------------------------------------------------------------- the state

VARIABLES
    ALLOWED_USERS,  \* handlers.ts: the allow-list parsed from the environment
    session,        \* grammY's in-memory session store: chat -> SessionData
    last,           \* the update handled last: what came in, what was called
    codec,          \* a callback token being encoded and decoded
    shown,          \* the keyboard under a displayed cast that is followed
    op,             \* an invocation of an action-layer operation (skills/post)
    signer          \* the loading of the signing identity (crypto/signer.ts)

vars == <<ALLOWED_USERS, session, last, codec, shown, op, signer>>

Undefined == [type |-> "undefined"]

\* SessionData.pending
Pending(type, fid, hashHex) ==
    [type |-> type, targetFid |-> fid, targetHashHex |-> hashHex]

\* A slip: one session for the whole bot instead of one per chat.
getSessionKey_global(conv) == "A"

\* session({ initial }) with no getSessionKey: grammY keys the store by chat.
getSessionKey(conv) == conv

\* A slip: the guard lets everyone through, whatever the list says.
isAllowed_ignoresList(from) == TRUE

isAllowed(from) ==
    IF Cardinality(ALLOWED_USERS) = 0 THEN TRUE ELSE from \in ALLOWED_USERS

\* ------------------------------------------------- calls a handler makes

\* One awaited call: into the action layer (skills/post), the view layer
\* (skills/view), the node client, or the chat platform (ctx.*).
Call(api, msg, text, fid, hashHex, kb) ==
    [api |-> api, msg |-> msg, text |-> text, fid |-> fid,
     hashHex |-> hashHex, kb |-> kb, ok |-> TRUE, caught |-> FALSE]

ActionCall(api, text, fid, hashHex) ==
    Call(api, "", text, fid, hashHex, NoKeyboard)
ReadCall(api, fid, hashHex) ==
    Call(api, "", <<>>, fid, hashHex, NoKeyboard)
Answer(msg) ==
    Call("answerCallbackQuery", msg, <<>>, NaN, <<>>, NoKeyboard)
Reply(msg) == Call("reply", msg, <<>>, NaN, <<>>, NoKeyboard)
ReplyKb(msg, kb) == Call("reply", msg, <<>>, NaN, <<>>, kb)
EditMarkup(kb) == Call("editMessageReplyMarkup", "", <<>>, NaN, <<>>, kb)

ActionApis == {"postCast", "likeCast", "unlikeCast", "recast", "unrecast",
               "replyCast", "quoteCast"}
ReadApis == {"getNodeInfo", "getFeed", "getReplies", "getProfile"}
ChatApis == {"answerCallbackQuery", "reply", "editMessageReplyMarkup"}

NoCall == Call("", "", <<>>, NaN, <<>>, NoKeyboard)

Failed(call) == [call EXCEPT !.ok = FALSE]

\* call.catch(() => undefined): a rejection of this call is swallowed on the
\* spot and the handler goes on; `resolved` is the call's outcome.
Caught(call, resolved) == [call EXCEPT !.caught = TRUE, !.ok = resolved]

\* What a handler does with an update, before the outcomes of its awaited
\* calls are known: the calls it makes in order when none rejects, whether
\* they sit in a try block and the one call of its catch block, and what it
\* leaves in ctx.session.pending when it completes and when a call rejected.
Plan(steps, guarded, handler, pendingOk, pendingErr) ==
    [steps |-> steps, guarded |-> guarded, handler |-> handler,
     pendingOk |-> pendingOk, pendingErr |-> pendingErr]

\* Awaited calls with no try around them: a rejection leaves the handler.
Unprotected(steps, pending) == Plan(steps, FALSE, NoCall, pending, pending)

\* try { steps } catch { handler }
TryCatch(steps, handler, pending) ==
    Plan(steps, TRUE, handler, pending, pending)

\* A handler that returns at once.
Ignored(pending) == Plan(<<>>, FALSE, NoCall, pending, pending)

\* The calls made when call number f of the plan rejects and the rejection
\* leaves the try block or the handler (f = 0: none does):
\* the calls before it resolve, the calls after it are never made; in a try
\* block the catch block's call follows, and rejects itself when g.
Trace(plan, f, g) ==
    IF f = 0 THEN plan.steps
    ELSE SubSeq(plan.steps, 1, f - 1) \o <<Failed(plan.steps[f])>>
         \o (IF plan.guarded
             THEN <<IF g THEN Failed(plan.handler) ELSE plan.handler>>
             ELSE <<>>)

\* Whether the handler throws (to bot.catch): a rejection outside a try
\* block, or a rejection inside the catch block.
Threw(plan, f, g) == f # 0 /\ (plan.guarded => g)

\* ----------------------------------------------------- handlers.ts: commands

\* bot.command("start")
StartCommand(from, pending) ==
    IF ~isAllowed(from) THEN Ignored(pending)
    ELSE Unprotected(<<Reply("Commands")>>, pending)

\* bot.command("node")
NodeCommand(from, pending) ==
    IF ~isAllowed(from) THEN Ignored(pending)
    ELSE TryCatch(<<ReadCall("getNodeInfo", NaN, <<>>),
                    Reply("HyperSnap Node")>>,
                  Reply("Node unreachable"), pending)

\* A slip: /post drops the pending action.
PostCommand_clears(from, match, pending) ==
    LET text == Trim(match)
    IN  IF ~isAllowed(from) THEN Ignored(pending)
        ELSE IF text = <<>>
        THEN Unprotected(<<Reply("Usage: /post")>>, pending)
        ELSE TryCatch(<<ActionCall("postCast", text, NaN, <<>>),
                        Reply("Cast submitted!")>>,
                      Reply("Failed to post"), Undefined)

\* bot.command("post")
PostCommand(from, match, pending) ==
    LET text == Trim(match)
    IN  IF ~isAllowed(from) THEN Ignored(pending)
        ELSE IF text = <<>>
        THEN Unprotected(<<Reply("Usage: /post")>>, pending)
        ELSE TryCatch(<<ActionCall("postCast", text, NaN, <<>>),
                        Reply("Cast submitted!")>>,
                      Reply("Failed to post"), pending)

\* The casts of a feed or a thread, each sent with its keyboard; a thread
\* first reads each author's profile, a read whose failure is swallowed
\* (`profile`: whether these reads resolve).
RECURSIVE SendCasts(_, _, _)
SendCasts(casts, perCastProfile, profile) ==
    IF casts = <<>> THEN <<>>
    ELSE (IF perCastProfile
          THEN <<Caught(ReadCall("getProfile", Head(casts).fid, <<>>),
                        profile)>>
          ELSE <<>>)
         \o <<ReplyKb("cast", Kb("castKeyboard", Head(casts).fid,
                                 Head(casts).hashHex))>>
         \o SendCasts(Tail(casts), perCastProfile, profile)

\* fidArg ? parseInt(fidArg, 10) : auth.fid
FidArg(match) == IF Trim(match) # <<>> THEN ParseInt(Trim(match)) ELSE AuthFid

\* bot.command("feed"); `casts` is what getFeed returns, `profile` whether
\* getProfile resolved.
FeedCommand(from, match, pending, casts, profile) ==
    LET fid == FidArg(match)
    IN  IF ~isAllowed(from) THEN Ignored(pending)
        ELSE IF fid.nan
        THEN Unprotected(<<Reply("Usage: /feed")>>, pending)
        ELSE IF casts = <<>>
        THEN TryCatch(<<ReadCall("getFeed", fid, <<>>),
                        Reply("No casts found")>>,
                      Reply("Error"), pending)
        ELSE TryCatch(<<ReadCall("getFeed", fid, <<>>),
                        Caught(ReadCall("getProfile", fid, <<>>), profile)>>
                      \o (IF profile THEN <<Reply("profile")>> ELSE <<>>)
                      \o SendCasts(casts, FALSE, profile),
                      Reply("Error"), pending)

\* bot.command("profile")
ProfileCommand(from, match, pending) ==
    LET fid == FidArg(match)
    IN  IF ~isAllowed(from) THEN Ignored(pending)
        ELSE IF fid.nan
        THEN Unprotected(<<Reply("Usage: /profile")>>, pending)
        ELSE TryCatch(<<ReadCall("getProfile", fid, <<>>),
                        Reply("profile")>>,
                      Reply("Error"), pending)

\* A slip: /cancel answers but leaves the slot as it was.
CancelCommand_keeps(from, pending) ==
    IF ~isAllowed(from) THEN Ignored(pending)
    ELSE Unprotected(<<Reply("Cancelled.")>>, pending)

\* bot.command("cancel"): the slot is cleared before the reply is awaited.
CancelCommand(from, pending) ==
    IF ~isAllowed(from) THEN Ignored(pending)
    ELSE Unprotected(<<Reply("Cancelled.")>>, Undefined)

\* ------------------------------------------- handlers.ts: callback queries

\* The try block of one case of switch (action), for a parsed token.
ReactionCase(api, fid, hashHex, msg, kb) ==
    <<ActionCall(api, <<>>, fid, hashHex), Answer(msg), EditMarkup(kb)>>

\* A slip: the press of Reply or Quote already submits an (empty) reply.
BeginCase_submitsAtOnce(answer, prompt) ==
    <<ActionCall("replyCast", <<>>, NaN, <<>>), Answer(answer), Reply(prompt)>>

BeginCase(answer, prompt) == <<Answer(answer), Reply(prompt)>>

ThreadCase(fid, hashHex, replies, profile) ==
    <<Answer("Loading thread..."), ReadCall("getReplies", fid, hashHex)>>
    \o (IF Len(replies) = 0 THEN <<Reply("No replies yet.")>>
        ELSE <<Reply("replies:")>>
             \o SendCasts(Slice0(replies, PageSize), TRUE, profile))

\* switch (action): no default case, so any other action does nothing.
CallbackTry(action, fid, hashHex, replies, profile) ==
    CASE action = LIKE ->
           ReactionCase("likeCast", fid, hashHex, "Liked!",
                        Kb("castKeyboardLiked", fid, hashHex))
      [] action = UNLIKE ->
           ReactionCase("unlikeCast", fid, hashHex, "Unliked.",
                        Kb("castKeyboard", fid, hashHex))
      [] action = RECAST ->
           ReactionCase("recast", fid, hashHex, "Recasted!",
                        Kb("castKeyboardRecast", fid, hashHex))
      [] action = UNRECAST ->
           ReactionCase("unrecast", fid, hashHex, "Recast removed.",
                        Kb("castKeyboard", fid, hashHex))
      [] action = REPLY ->
           BeginCase("Send your reply text.", "Replying to cast")
      [] action = QUOTE ->
           BeginCase("Send your quote text.", "Quoting cast")
      [] action = THREAD -> ThreadCase(fid, hashHex, replies, profile)
      [] OTHER -> <<>>

\* A slip: a press while an action is pending does not replace it.
CallbackPending_firstWins(action, fid, hashHex, pending) ==
    IF pending.type # "undefined" THEN pending
    ELSE CASE action = REPLY -> Pending("reply", fid, hashHex)
           [] action = QUOTE -> Pending("quote", fid, hashHex)
           [] OTHER -> pending

\* ctx.session.pending after the switch: written by the reply and quote
\* cases before anything is awaited, left alone by every other case.
CallbackPending(action, fid, hashHex, pending) ==
    CASE action = REPLY -> Pending("reply", fid, hashHex)
      [] action = QUOTE -> Pending("quote", fid, hashHex)
      [] OTHER -> pending

\* A slip: the reply and quote cases write the slot after their awaits, so
\* a rejected call leaves the slot as it was.
CallbackQuery_writesLast(from, data, pending, replies, profile) ==
    LET parsed == parseCastCallback(data)
    IN  IF ~isAllowed(from)
        THEN Unprotected(<<Answer("Not authorized.")>>, pending)
        ELSE IF parsed = Null
        THEN Unprotected(<<Answer("Unknown action.")>>, pending)
        ELSE Plan(CallbackTry(parsed.action, parsed.fid, parsed.hashHex,
                              replies, profile),
                  TRUE, Answer("error"),
                  CallbackPending(parsed.action, parsed.fid,
                                  parsed.hashHex, pending),
                  pending)

\* bot.on("callback_query:data"); `replies` is what getReplies returns,
\* `profile` whether the getProfile reads of a thread resolve.
CallbackQuery(from, data, pending, replies, profile) ==
    LET parsed == parseCastCallback(data)
    IN  IF ~isAllowed(from)
        THEN Unprotected(<<Answer("Not authorized.")>>, pending)
        ELSE IF parsed = Null
        THEN Unprotected(<<Answer("Unknown action.")>>, pending)
        ELSE TryCatch(CallbackTry(parsed.action, parsed.fid, parsed.hashHex,
                                  replies, profile),
                      Answer("error"),
                      CallbackPending(parsed.action, parsed.fid,
                                      parsed.hashHex, pending))

\* ------------------------------------------------ handlers.ts: text input

\* A slip: the branches of the text handler test the wrong type.
TextTry_swapped(pending, text) ==
    IF pending.type = "quote"
    THEN <<ActionCall("replyCast", text, pending.targetFid,
                      pending.targetHashHex),
           Reply("Reply posted!")>>
    ELSE <<ActionCall("quoteCast", text, pending.targetFid,
                      pending.targetHashHex),
           Reply("Quote cast posted!")>>

\* The try block of the text handler: the pending action's call, then the
\* confirmation.
TextTry(pending, text) ==
    IF pending.type = "reply"
    THEN <<ActionCall("replyCast", text, pending.targetFid,
                      pending.targetHashHex),
           Reply("Reply posted!")>>
    ELSE <<ActionCall("quoteCast", text, pending.targetFid,
                      pending.targetHashHex),
           Reply("Quote cast posted!")>>

\* A slip: the text handler never clears the slot.
TextFinally_keeps(pending, rejected) == pending

\* A slip: the slot is cleared at the end of the try block, not in finally.
TextFinally_tryOnly(pending, rejected) ==
    IF rejected THEN pending ELSE Undefined

\* finally { ctx.session.pending = undefined }: whether or not a call of the
\* try block rejected.
TextFinally(pending, rejected) == Undefined

\* A slip: text that answers no prompt is published as a new cast.
TextMessage_postsWhenIdle(from, messageText, pending) ==
    LET text == Trim(messageText)
    IN  IF ~isAllowed(from) THEN Ignored(pending)
        ELSE IF text = <<>> THEN Ignored(pending)
        ELSE IF pending = Undefined
        THEN TryCatch(<<ActionCall("postCast", text, NaN, <<>>),
                        Reply("Cast submitted!")>>,
                      Reply("Failed"), pending)
        ELSE Plan(TextTry(pending, text), TRUE, Reply("Failed"),
                  TextFinally(pending, FALSE), TextFinally(pending, TRUE))

\* bot.on("message:text")
TextMessage(from, messageText, pending) ==
    LET text == Trim(messageText)
    IN  IF ~isAllowed(from) THEN Ignored(pending)
        ELSE IF pending = Undefined THEN Ignored(pending)
        ELSE IF text = <<>> THEN Ignored(pending)
        ELSE Plan(TextTry(pending, text), TRUE, Reply("Failed"),
                  TextFinally(pending, FALSE), TextFinally(pending, TRUE))

\* ------------------------------------------------------------ the actions

NoUpdate ==
    [kind |-> "none", conv |-> "", from |-> 0, data |-> <<>>,
     before |-> Undefined, trace |-> <<>>, threw |-> FALSE]

NoOp == [stage |-> "idle"]

NoSigner == [stage |-> "idle"]

NoCodec ==
    [stage |-> "idle", action |-> <<>>, fid |-> NaN, hashHex |-> <<>>,
     token |-> <<>>, parsed |-> Null]

IsEdit(call) == call.api = "editMessageReplyMarkup" /\ call.ok

\* ctx.editMessageReplyMarkup({ reply_markup }): the chat platform replaces
\* the keyboard of the message the pressed button is on, if that message is
\* followed and the call resolved.
Redrawn(kb, trace) ==
    LET edits == SelectSeq(trace, IsEdit)
    IN  IF kb = NoKeyboard \/ edits = <<>> THEN kb
        ELSE edits[Len(edits)].kb

\* bot.start() polls and handles one update at a time, each to completion.
\* The session middleware hands the handler the chat's SessionData and keeps
\* what the handler left in it. Which of the handler's awaited calls rejects
\* is the environment's choice. `last` records the update, the pending action
\* the handler found and the calls it made, until the next update is taken.
Handle(kind, conv, from, data, plan) ==
    /\ last = NoUpdate
    /\ \E f \in 0..Len(plan.steps),
          g \in IF plan.guarded THEN BOOLEAN ELSE {FALSE} :
        /\ f = 0 => ~g
        /\ f # 0 => ~plan.steps[f].caught
        /\ session' = [session EXCEPT ![getSessionKey(conv)] =
               [pending |-> IF f = 0 THEN plan.pendingOk
                            ELSE plan.pendingErr]]
        /\ last' = [kind |-> kind, conv |-> conv, from |-> from,
                    data |-> data,
                    before |-> session[getSessionKey(conv)].pending,
                    trace |-> Trace(plan, f, g), threw |-> Threw(plan, f, g)]
        /\ shown' = Redrawn(shown, Trace(plan, f, g))
    /\ UNCHANGED <<ALLOWED_USERS, codec, op, signer>>

Start(conv, from) ==
    Handle("start", conv, from, <<>>,
           StartCommand(from, session[getSessionKey(conv)].pending))

Node(conv, from) ==
    Handle("node", conv, from, <<>>, NodeCommand(from, session[getSessionKey(conv)].pending))

Post(conv, from) ==
    \E match \in Args :
        Handle("post", conv, from, match,
               PostCommand(from, match, session[getSessionKey(conv)].pending))

Feed(conv, from) ==
    \E match \in Args, casts \in CastSeqs, profile \in BOOLEAN :
        Handle("feed", conv, from, match,
               FeedCommand(from, match, session[getSessionKey(conv)].pending, casts, profile))

Profile(conv, from) ==
    \E match \in Args :
        Handle("profile", conv, from, match,
               ProfileCommand(from, match, session[getSessionKey(conv)].pending))

Cancel(conv, from) ==
    Handle("cancel", conv, from, <<>>,
           CancelCommand(from, session[getSessionKey(conv)].pending))

Callback(conv, from) ==
    \E data \in Tokens, replies \in CastSeqs, profile \in BOOLEAN :
        Handle("callback_query:data", conv, from, data,
               CallbackQuery(from, data, session[getSessionKey(conv)].pending,
                             replies, profile))

\* A press of one of the buttons now under the displayed cast.
Press(conv, from) ==
    \E i \in 1..Len(Keyboard(shown)), replies \in CastSeqs,
       profile \in BOOLEAN :
        Handle("callback_query:data", conv, from, Keyboard(shown)[i],
               CallbackQuery(from, Keyboard(shown)[i],
                             session[getSessionKey(conv)].pending,
                             replies, profile))

Text(conv, from) ==
    \E messageText \in Texts :
        Handle("message:text", conv, from, messageText,
               TextMessage(from, messageText, session[getSessionKey(conv)].pending))

\* The handler has returned (or bot.catch has logged what it threw); the
\* polling loop goes on to the next update.
NextUpdate ==
    /\ last # NoUpdate
    /\ last' = NoUpdate
    /\ UNCHANGED <<ALLOWED_USERS, session, codec, shown, op, signer>>

\* process.env.TELEGRAM_ALLOWED_USERS: empty (everyone) or one user.
Init ==
    /\ ALLOWED_USERS \in {{}, {1}}
    /\ session = [c \in Convs |-> [pending |-> Undefined]]
    /\ last = NoUpdate
    /\ codec = NoCodec
    /\ shown = NoKeyboard
    /\ op = NoOp
    /\ signer = NoSigner

Next ==
    \/ NextUpdate
    \/ \E conv \in Convs, from \in Users :
        \/ Start(conv, from)
        \/ Node(conv, from)
        \/ Post(conv, from)
        \/ Feed(conv, from)
        \/ Profile(conv, from)
        \/ Cancel(conv, from)
        \/ Callback(conv, from)
        \/ Text(conv, from)

Spec == Init /\ [][Next]_vars

\* ------------------------------------- the buttons under one displayed cast

\* A cast has been sent with castKeyboard (by /feed or a thread); from then
\* on the updates are presses of the buttons under it.
ButtonsInit ==
    /\ ALLOWED_USERS \in {{}, {1}}
    /\ session = [c \in Convs |-> [pending |-> Undefined]]
    /\ last = NoUpdate
    /\ codec = NoCodec
    /\ shown \in {Kb("castKeyboard", c.fid, c.hashHex) : c \in Casts}
    /\ op = NoOp
    /\ signer = NoSigner

ButtonsNext ==
    \/ NextUpdate
    \/ \E conv \in Convs, from \in Users : Press(conv, from)

SpecButtons == ButtonsInit /\ [][ButtonsNext]_vars


\* ------------------------------------------- the codec on its own inputs

\* Hashes given to castCallbackData: as bytesToHex prints them (2, 20 and 32
\* bytes) and without the 0x prefix (3 bytes).
CodecHashes == {Hash2, Hash20, Hash32, HexBytes(3)}

CodecInputs ==
    {[stage |-> "input", action |-> a, fid |-> Num(n), hashHex |-> h,
      token |-> <<>>, parsed |-> Null] :
        a \in CastAction, n \in 0..MaxFid, h \in CodecHashes}

\* Callback data as it arrives from the chat platform.
CodecReceived ==
    {[stage |-> "received", action |-> <<>>, fid |-> NaN, hashHex |-> <<>>,
      token |-> t, parsed |-> Null] : t \in ForeignTokens}

\* A keyboard builder encodes the button's token.
Encode ==
    /\ codec.stage = "input"
    /\ codec' = [codec EXCEPT
           !.stage = "encoded",
           !.token = castCallbackData(codec.action, codec.fid, codec.hashHex)]
    /\ UNCHANGED <<ALLOWED_USERS, session, last, shown, op, signer>>

\* The callback handler decodes the token of the pressed button.
Decode ==
    /\ codec.stage \in {"encoded", "received"}
    /\ codec' = [codec EXCEPT
           !.stage = IF codec.stage = "encoded" THEN "decoded" ELSE "rejected",
           !.parsed = parseCastCallback(codec.token)]
    /\ UNCHANGED <<ALLOWED_USERS, session, last, shown, op, signer>>

CodecInit ==
    /\ ALLOWED_USERS = {}
    /\ session = [c \in Convs |-> [pending |-> Undefined]]
    /\ last = NoUpdate
    /\ codec \in CodecInputs \cup CodecReceived
    /\ shown = NoKeyboard
    /\ op = NoOp
    /\ signer = NoSigner

CodecNext == Encode \/ Decode

SpecCodec == CodecInit /\ [][CodecNext]_vars

\* ------------------------------------------- the token builder on its own

\* Author ids a JavaScript number holds exactly: the small ones and the
\* powers of ten up to 10^MaxFidExp.
TokenFids ==
    {Num(n) : n \in 0..MaxFid} \cup {Scaled(1, k) : k \in 1..MaxFidExp}

\* Hashes of 0, 2, 3 (no prefix), 20, 32 and 64 bytes.
TokenHashes == CodecHashes \cup {Ox(<<>>), Ox(HexBytes(64))}

TokenInputs ==
    {[stage |-> "input", action |-> a, fid |-> n, hashHex |-> h,
      token |-> <<>>, parsed |-> Null] :
        a \in CastAction, n \in TokenFids, h \in TokenHashes}

TokenInit ==
    /\ ALLOWED_USERS = {}
    /\ session = [c \in Convs |-> [pending |-> Undefined]]
    /\ last = NoUpdate
    /\ codec \in TokenInputs
    /\ shown = NoKeyboard
    /\ op = NoOp
    /\ signer = NoSigner

TokenNext == Encode

SpecToken == TokenInit /\ [][TokenNext]_vars


\* ------------------------------------------ skills/post: the action layer

\* hex.replace(/^0x/, ""): the pattern is anchored at the start.
StripLeading0x(hex) ==
    IF Len(hex) >= 2 /\ hex[1] = "0" /\ hex[2] = "x"
    THEN SubSeq(hex, 3, Len(hex)) ELSE hex

\* Buffer.from(hex, "hex"): one byte per pair of hex digits, stopping at the
\* first pair that is not two hex digits; a last odd digit is dropped.
\* A byte is kept as its two digits.
RECURSIVE BufferFromHex(_)
BufferFromHex(hex) ==
    IF Len(hex) < 2 \/ hex[1] \notin HexDigitSet \/ hex[2] \notin HexDigitSet
    THEN <<>>
    ELSE <<SubSeq(hex, 1, 2)>> \o BufferFromHex(SubSeq(hex, 3, Len(hex)))

hexToBytes(hex) == BufferFromHex(StripLeading0x(hex))

\* "0x" + Buffer.from(bytes).toString("hex")
RECURSIVE BufferToHex(_)
BufferToHex(bytes) ==
    IF bytes = <<>> THEN <<>> ELSE Head(bytes) \o BufferToHex(Tail(bytes))

bytesToHex(bytes) == <<"0", "x">> \o BufferToHex(bytes)

\* An optional string or array of the options, when it is given.
String(value) == [type |-> "string", value |-> value]
Array(items) == [type |-> "array", items |-> items]

\* A JavaScript value is truthy: not undefined and not the empty string.
Truthy(v) == v # Undefined /\ v # String("")

\* new Error(message)
Error(message) == [type |-> "Error", message |-> message]

\* CastOptions, as far as postCast reads it apart from the mentions.
CastOptions(text, embeds, parentCastId, parentUrl) ==
    [text |-> text, embeds |-> embeds, parentCastId |-> parentCastId,
     parentUrl |-> parentUrl]

\* A call of one of the message builders of the hub library.
Make(builder, body) == [builder |-> builder, body |-> body]

\* A slip: the parent reference of the options is not copied to the body.
postCastBody_dropsParent(opts) ==
    [text |-> opts.text,
     embeds |-> IF opts.embeds = Undefined THEN <<>>
                ELSE [i \in 1..Len(opts.embeds.items) |->
                          [url |-> opts.embeds.items[i]]],
     mentions |-> <<>>,
     mentionsPositions |-> <<>>]
    @@ (IF Truthy(opts.parentUrl) THEN [parentUrl |-> opts.parentUrl.value]
        ELSE <<>>)

\* postCast: the body handed to makeCastAdd.
postCastBody(opts) ==
    [text |-> opts.text,
     embeds |-> IF opts.embeds = Undefined THEN <<>>
                ELSE [i \in 1..Len(opts.embeds.items) |->
                          [url |-> opts.embeds.items[i]]],
     mentions |-> <<>>,
     mentionsPositions |-> <<>>]
    @@ (IF opts.parentCastId # Undefined
        THEN [parentCastId |->
                  [fid |-> opts.parentCastId.fid,
                   hash |-> hexToBytes(opts.parentCastId.hash)]]
        ELSE IF Truthy(opts.parentUrl)
        THEN [parentUrl |-> opts.parentUrl.value]
        ELSE <<>>)

postCast(opts) == Make("makeCastAdd", postCastBody(opts))

removeCast(castHashHex) ==
    Make("makeCastRemove", [targetHash |-> hexToBytes(castHashHex)])

Reaction(builder, type, targetFid, targetHashHex) ==
    Make(builder,
         [type |-> type,
          targetCastId |-> [fid |-> targetFid,
                            hash |-> hexToBytes(targetHashHex)]])

likeCast(targetFid, targetHashHex) ==
    Reaction("makeReactionAdd", "LIKE", targetFid, targetHashHex)
unlikeCast(targetFid, targetHashHex) ==
    Reaction("makeReactionRemove", "LIKE", targetFid, targetHashHex)
recast(targetFid, targetHashHex) ==
    Reaction("makeReactionAdd", "RECAST", targetFid, targetHashHex)
unrecast(targetFid, targetHashHex) ==
    Reaction("makeReactionRemove", "RECAST", targetFid, targetHashHex)

replyCast(text, parentFid, parentHashHex) ==
    postCast(CastOptions(text, Undefined,
                         [fid |-> parentFid, hash |-> parentHashHex],
                         Undefined))

\* A slip: the quoted cast is embedded as a URL embed.
quoteCastBody_urlEmbed(text, targetFid, targetHashHex) ==
    [text |-> text,
     embeds |-> <<[url |-> targetHashHex]>>,
     mentions |-> <<>>,
     mentionsPositions |-> <<>>]

\* quoteCast: the body handed to makeCastAdd.
quoteCastBody(text, targetFid, targetHashHex) ==
    [text |-> text,
     embeds |-> <<[castId |-> [fid |-> targetFid,
                               hash |-> hexToBytes(targetHashHex)]]>>,
     mentions |-> <<>>,
     mentionsPositions |-> <<>>]

quoteCast(text, targetFid, targetHashHex) ==
    Make("makeCastAdd", quoteCastBody(text, targetFid, targetHashHex))

\* The builder call an operation makes for its arguments.
MakeOf(name, args) ==
    CASE name = "postCast" -> postCast(args)
      [] name = "removeCast" -> removeCast(args.hashHex)
      [] name = "likeCast" -> likeCast(args.fid, args.hashHex)
      [] name = "unlikeCast" -> unlikeCast(args.fid, args.hashHex)
      [] name = "recast" -> recast(args.fid, args.hashHex)
      [] name = "unrecast" -> unrecast(args.fid, args.hashHex)
      [] name = "replyCast" -> replyCast(args.text, args.fid, args.hashHex)
      [] name = "quoteCast" -> quoteCast(args.text, args.fid, args.hashHex)

\* dataOptions(ctx)
dataOptions == [fid |-> AuthFid, network |-> "ctx.client.config.network"]

\* Result values of the hub library: ok(value) and err(error).
Ok(value) == [isErr |-> FALSE, value |-> value]
Err(error) == [isErr |-> TRUE, error |-> error]

\* What a builder returns for a call: the signed message, or an error when
\* the body does not validate or the signer fails.
MakeResults(make) ==
    {Ok([data |-> [body |-> make.body, builder |-> make.builder]
                  @@ dataOptions,
         signer |-> "ctx.signer"]),
     Err(Error("validation error")), Err(Error("signer error"))}

\* What rpc.submitMessage returns: the accepted message, or an error.
RpcResults(message) ==
    {Ok(message), Err(Error("node rejected the message")),
     Err(Error("node unavailable"))}

\* Operation arguments: texts, cast references (well-formed hashes of 2 and
\* 20 bytes, prefixed or not, and hashes that are not hex), URLs.
OpTexts == {Nice, <<>>}
OpHashes == {Hash2, Hash20, HexBytes(3), Ox(<<"a", "b", "c">>),
             Ox(<<"z", "z">>)}
OpFids == {Num(7), Num(42)}
Urls == {"https://a.example", "https://b.example"}
OpEmbeds ==
    {Undefined} \cup {Array(e) : e \in UNION {[1..n -> Urls] : n \in 0..2}}

OpArgs(name) ==
    IF name = "postCast"
    THEN {CastOptions(t, e, p, u) :
              t \in {Nice}, e \in OpEmbeds,
              p \in {Undefined} \cup
                    {[fid |-> f, hash |-> h] : f \in OpFids, h \in OpHashes},
              u \in {Undefined, String(""),
                     String("https://channel.example")}}
    ELSE {[text |-> t, fid |-> f, hashHex |-> h] :
              t \in IF name \in {"replyCast", "quoteCast"}
                    THEN OpTexts ELSE {<<>>},
              f \in IF name = "removeCast" THEN {NaN} ELSE OpFids,
              h \in OpHashes}

OpNames == {"postCast", "removeCast", "likeCast", "unlikeCast", "recast",
            "unrecast", "replyCast", "quoteCast"}

\* An operation has been called: nothing built, nothing submitted yet.
Called(name, args) ==
    [stage |-> "called", name |-> name, args |-> args, result |-> Undefined,
     submitted |-> <<>>, rpc |-> Undefined, thrown |-> Undefined,
     returned |-> Undefined]

OpInputs ==
    UNION {{Called(name, args) : args \in OpArgs(name)} : name \in OpNames}

\* const result = await make...(body, dataOptions(ctx), ctx.signer);
\* if (result.isErr()) throw result.error;
Build ==
    /\ op.stage = "called"
    /\ \E result \in MakeResults(MakeOf(op.name, op.args)) :
           op' = [op EXCEPT
               !.result = result,
               !.stage = IF result.isErr THEN "threw" ELSE "made",
               !.thrown = IF result.isErr THEN result.error ELSE Undefined]
    /\ UNCHANGED <<ALLOWED_USERS, session, last, codec, shown, signer>>

\* A slip: a submit the node refuses is tried once more.
submitMessage_retries(o, message, rpc) ==
    [o EXCEPT
        !.submitted = IF rpc.isErr THEN @ \o <<message, message>>
                      ELSE Append(@, message),
        !.rpc = rpc,
        !.stage = IF rpc.isErr THEN "threw" ELSE "returned",
        !.thrown = IF rpc.isErr THEN rpc.error ELSE Undefined,
        !.returned = IF rpc.isErr THEN Undefined ELSE rpc.value]

\* HyperSnapClient.submitMessage(message): one rpc.submitMessage call, whose
\* error is thrown and whose value is returned, to the operation and by it
\* to its caller.
submitMessage(o, message, rpc) ==
    [o EXCEPT
        !.submitted = Append(@, message),
        !.rpc = rpc,
        !.stage = IF rpc.isErr THEN "threw" ELSE "returned",
        !.thrown = IF rpc.isErr THEN rpc.error ELSE Undefined,
        !.returned = IF rpc.isErr THEN Undefined ELSE rpc.value]

\* return ctx.client.submitMessage(result.value);
Submit ==
    /\ op.stage = "made"
    /\ \E rpc \in RpcResults(op.result.value) :
           op' = submitMessage(op, op.result.value, rpc)
    /\ UNCHANGED <<ALLOWED_USERS, session, last, codec, shown, signer>>

ActionInit ==
    /\ ALLOWED_USERS = {}
    /\ session = [c \in Convs |-> [pending |-> Undefined]]
    /\ last = NoUpdate
    /\ codec = NoCodec
    /\ shown = NoKeyboard
    /\ op \in OpInputs
    /\ signer = NoSigner

ActionNext == Build \/ Submit

SpecAction == ActionInit /\ [][ActionNext]_vars

\* ------------------------------------ crypto/signer.ts: the signing identity

\* new Ed25519Signer(privateKey)
Ed25519Signer(privateKey) == [type |-> "Ed25519Signer", privateKey |-> privateKey]

\* The outcome of a call: a value returned or an error thrown.
Returned(value) == [threw |-> FALSE, value |-> value]
Thrown(error) == [threw |-> TRUE, error |-> error]

\* `${clean.length / 2}`: a whole number, or one ending in .5.
HalfToString(n) ==
    Dec(n \div 2) \o (IF n % 2 = 1 THEN <<".", "5">> ELSE <<>>)

\* signerFromPrivateKey(hexKey): the outcomes of the call. The constructor
\* of the hub library is given whatever hexToBytes decoded; for a key that is
\* not 32 bytes long it may take it or throw an error of its own.
signerFromPrivateKey(hexKey) ==
    LET clean == StripLeading0x(hexKey)
        bytes == hexToBytes(clean)
    IN  IF Len(clean) # KeyHexChars
        THEN {Thrown(Error(<<"Private key must be 32 bytes (64 hex chars), got ",
                             HalfToString(Len(clean)), " bytes">>))}
        ELSE {Returned(Ed25519Signer(bytes))}
             \cup (IF Len(bytes) * 2 # KeyHexChars
                   THEN {Thrown(Error(<<"Ed25519Signer">>))} ELSE {})

\* The words of a mnemonic (split on single spaces).
Words(mnemonic) == Split(mnemonic, " ")

\* signerFromMnemonic(mnemonic): the key is the first 32 bytes of
\* HMAC-SHA512("ed25519 seed", seed of the trimmed mnemonic), kept here as
\* the words it is derived from; mnemonicToSeedSync of the BIP-39 library
\* throws for a phrase that is not 12, 15, 18, 21 or 24 words long.
signerFromMnemonic(mnemonic) ==
    LET words == Words(Trim(mnemonic))
    IN  IF Len(words) \in {12, 15, 18, 21, 24}
        THEN {Returned(Ed25519Signer(<<"ed25519 seed">> \o words))}
        ELSE {Thrown(Error(<<"Invalid mnemonic">>))}

\* process.env.NAME?.trim() is truthy: set and not blank.
Configured(v) == v # Undefined /\ Trim(v.value) # <<>>

\* signerFromEnv(): the outcomes of the call for an environment.
signerFromEnv(env) ==
    IF Configured(env.SIGNER_PRIVATE_KEY)
    THEN signerFromPrivateKey(Trim(env.SIGNER_PRIVATE_KEY.value))
    ELSE IF Configured(env.SIGNER_MNEMONIC)
    THEN signerFromMnemonic(Trim(env.SIGNER_MNEMONIC.value))
    ELSE {Thrown(Error(<<"No signing key configured. Set SIGNER_PRIVATE_KEY or SIGNER_MNEMONIC in .env">>))}

\* Keys: 32 bytes of hex, bare and 0x-prefixed; 31 and 33 bytes; an odd
\* number of digits; 64 characters that are not all hex digits; a second 0x
\* prefix; white space around the key; nothing.
Key32 == HexBytes(32)
HexKeys ==
    {Key32, Ox(Key32), HexBytes(31), Ox(HexBytes(33)),
     HexBytes(31) \o <<"a">>,
     <<"z", "z">> \o HexBytes(31),
     HexBytes(31) \o <<"z", "z">>,
     Ox(Ox(HexBytes(31))),
     <<" ">> \o Key32 \o <<"\n">>,
     <<>>}

\* Mnemonics: n one-letter words, bare or padded.
RECURSIVE Phrase(_)
Phrase(n) == IF n = 1 THEN <<"a">> ELSE <<"a", " ">> \o Phrase(n - 1)
Mnemonics == {Phrase(12), <<" ">> \o Phrase(12) \o <<"\n">>, Phrase(3)}

\* process.env: each variable unset, blank or set.
Envs ==
    [SIGNER_PRIVATE_KEY :
         {Undefined, String(<<" ">>)} \cup {String(k) : k \in HexKeys},
     SIGNER_MNEMONIC :
         {Undefined, String(<<" ">>)} \cup {String(m) : m \in Mnemonics}]

\* A call about to be made: of signerFromEnv() in an environment, or of
\* signerFromPrivateKey(hexKey).
Loading(call, env, hexKey) ==
    [stage |-> "calling", call |-> call, env |-> env, hexKey |-> hexKey,
     outcome |-> Undefined]

NoEnv == [SIGNER_PRIVATE_KEY |-> Undefined, SIGNER_MNEMONIC |-> Undefined]

FromEnv ==
    /\ signer.stage = "calling"
    /\ signer.call = "signerFromEnv"
    /\ \E outcome \in signerFromEnv(signer.env) :
           signer' = [signer EXCEPT !.stage = "done", !.outcome = outcome]
    /\ UNCHANGED <<ALLOWED_USERS, session, last, codec, shown, op>>

FromPrivateKey ==
    /\ signer.stage = "calling"
    /\ signer.call = "signerFromPrivateKey"
    /\ \E outcome \in signerFromPrivateKey(signer.hexKey) :
           signer' = [signer EXCEPT !.stage = "done", !.outcome = outcome]
    /\ UNCHANGED <<ALLOWED_USERS, session, last, codec, shown, op>>

SignerInit ==
    /\ ALLOWED_USERS = {}
    /\ session = [c \in Convs |-> [pending |-> Undefined]]
    /\ last = NoUpdate
    /\ codec = NoCodec
    /\ shown = NoKeyboard
    /\ op = NoOp
    /\ signer \in {Loading("signerFromEnv", env, <<>>) : env \in Envs}
                  \cup {Loading("signerFromPrivateKey", NoEnv, k) :
                            k \in HexKeys}

SignerNext == FromEnv \/ FromPrivateKey

SpecSigner == SignerInit /\ [][SignerNext]_vars

\* ---------------------------------------------------- reading the record

\* The hex digits of a hash, without its 0x prefix if it has one.
HexDigitsOf(h) ==
    IF Len(h) >= 2 /\ h[1] = "0" /\ h[2] = "x" THEN SubSeq(h, 3, Len(h)) ELSE h

\* A hash cut to its first 20 bytes, 0x-prefixed.
First20Bytes(h) ==
    <<"0", "x">> \o SubSeq(HexDigitsOf(h), 1,
                           IF Len(HexDigitsOf(h)) < 40 THEN Len(HexDigitsOf(h))
                           ELSE 40)

IsActionCall(call) == call.api \in ActionApis
IsReadCall(call) == call.api \in ReadApis
IsChatCall(call) == call.api \in ChatApis

ActionCalls(trace) == SelectSeq(trace, IsActionCall)
ReadCalls(trace) == SelectSeq(trace, IsReadCall)
ChatCalls(trace) == SelectSeq(trace, IsChatCall)

\* The update handled last came from a sender the allow-list admits.
Admitted(kind) ==
    /\ last.kind = kind
    /\ (ALLOWED_USERS = {} \/ last.from \in ALLOWED_USERS)

PendingTypes == {"reply", "quote"}

\* The press of the Reply or Quote button under a cast.
IsBeginPress(a, cast) ==
    /\ Admitted("callback_query:data")
    /\ last.data = castCallbackData(a, cast.fid, cast.hashHex)

\* ------------------------------------------------------------------ C1

\* C1: each conversation holds at most one pending action (one slot that is
\* empty, a reply or a quote), and once a press of a Reply or Quote button
\* has been handled the slot holds exactly that press: its kind, the
\* author id and the hash its token carries (the first 20 bytes), whatever
\* was pending before; a reply press followed by a quote press leaves the
\* quote.
C1_LastPressWins ==
    /\ \A c \in Convs :
           \/ session[c].pending = Undefined
           \/ /\ session[c].pending.type \in PendingTypes
              /\ DOMAIN session[c].pending
                     = {"type", "targetFid", "targetHashHex"}
    /\ \A cast \in Casts :
           /\ IsBeginPress(REPLY, cast) =>
                  session[last.conv].pending
                      = [type |-> "reply", targetFid |-> cast.fid,
                         targetHashHex |-> First20Bytes(cast.hashHex)]
           /\ IsBeginPress(QUOTE, cast) =>
                  session[last.conv].pending
                      = [type |-> "quote", targetFid |-> cast.fid,
                         targetHashHex |-> First20Bytes(cast.hashHex)]

\* A quote press on one cast handled while a reply to another was pending.
C1_Witness ==
    \E cast \in Casts :
        /\ IsBeginPress(QUOTE, cast)
        /\ last.before.type = "reply"
        /\ \E other \in Casts \ {cast} :
               last.before.targetFid = other.fid
        /\ session[last.conv].pending.type = "quote"
        /\ session[last.conv].pending.targetFid = cast.fid

\* ------------------------------------------------------------------ C2

\* A text message that resolved a pending action: the handler reached its
\* try block and called the action layer.
Resolved ==
    /\ Admitted("message:text")
    /\ last.before # Undefined
    /\ Trim(last.data) # <<>>

\* C2: when a text message resolves a pending reply or quote, the slot is
\* empty once the handler finishes, whether the action-layer call resolved
\* or rejected (and whether or not the answers to the chat could be sent).
C2_SlotClearedAfterText ==
    Resolved => session[last.conv].pending = Undefined

\* A resolving text whose action-layer call rejected.
C2_Witness ==
    /\ Resolved
    /\ Len(last.trace) >= 1
    /\ last.trace[1].api \in {"replyCast", "quoteCast"}
    /\ ~last.trace[1].ok
    /\ session[last.conv].pending = Undefined


\* ------------------------------------------------------------------ C3

\* The one action-layer call a resolving text makes, compared field by
\* field (the call's own outcome aside).
IsTheCall(trace, api, text, pending) ==
    /\ Len(ActionCalls(trace)) = 1
    /\ ActionCalls(trace)[1].api = api
    /\ ActionCalls(trace)[1].text = text
    /\ ActionCalls(trace)[1].fid = pending.targetFid
    /\ ActionCalls(trace)[1].hashHex = pending.targetHashHex

\* The pending action was set by the button of a displayed cast.
ForDisplayedCast(pending) ==
    \E cast \in Casts :
        /\ pending.targetFid = cast.fid
        /\ pending.targetHashHex = First20Bytes(cast.hashHex)

CallsUsePending(trace, pending) ==
    \A i \in 1..Len(trace) :
        trace[i].api \in {"replyCast", "quoteCast"} =>
            /\ pending # Undefined
            /\ trace[i].fid = pending.targetFid
            /\ trace[i].hashHex = pending.targetHashHex

\* C4: handling an update of one conversation never resolves, clears or
\* changes the pending action of another one, and the target a text message
\* acts on is the one pending in its own conversation, which only presses in
\* that conversation have written.
C4_Isolation ==
    [][last'.kind # "none" =>
          /\ \A d \in Convs \ {last'.conv} : session'[d] = session[d]
          /\ CallsUsePending(last'.trace, session[last'.conv].pending)]_vars

\* A text resolved in one conversation while another one still awaits text
\* for a different target.
C4_Witness ==
    /\ Resolved
    /\ Len(ActionCalls(last.trace)) = 1
    /\ \E d \in Convs \ {last.conv} :
           /\ session[d].pending # Undefined
           /\ session[d].pending.targetFid # ActionCalls(last.trace)[1].fid

\* ------------------------------------------------------------------ C5

\* C5: a text message delivered to a conversation with no pending action
\* makes no action-layer call and leaves the conversation idle.
C5_IdleTextIsNoOp ==
    (last.kind = "message:text" /\ last.before = Undefined) =>
        /\ ActionCalls(last.trace) = <<>>
        /\ session[last.conv].pending = Undefined

\* A text that is not blank, from an admitted sender, in an idle chat.
C5_Witness ==
    /\ Admitted("message:text")
    /\ last.before = Undefined
    /\ Trim(last.data) # <<>>
    /\ last.trace = <<>>

\* ------------------------------------------------------------------ C6

\* An update that is the press of a Reply or Quote button.
IsBegin(update) ==
    /\ update.kind = "callback_query:data"
    /\ parseCastCallback(update.data) # Null
    /\ parseCastCallback(update.data).action \in {REPLY, QUOTE}

\* C6: /cancel, in any state, leaves the conversation with no pending action
\* and calls neither the action layer nor the node; from then on the
\* conversation stays idle until a Reply or Quote press, and a text message
\* handled while it is idle submits nothing.
C6_CancelClears ==
    /\ [](Admitted("cancel") =>
              /\ session[last.conv].pending = Undefined
              /\ ActionCalls(last.trace) = <<>>
              /\ ReadCalls(last.trace) = <<>>)
    /\ [][\A c \in Convs :
              session[c].pending = Undefined =>
                  /\ session'[c].pending # Undefined =>
                         (IsBegin(last') /\ last'.conv = c)
                  /\ (last'.kind = "message:text" /\ last'.conv = c) =>
                         ActionCalls(last'.trace) = <<>>]_vars

\* /cancel handled while the conversation awaited a reply text.
C6_Witness ==
    /\ Admitted("cancel")
    /\ last.before.type = "reply"
    /\ session[last.conv].pending = Undefined


\* ------------------------------------------------------------------ C7

\* C7: decoding the token castCallbackData builds from (kind, fid, hash)
\* gives back the same kind, the same numeric fid and the hash cut to its
\* first 20 bytes with a 0x prefix; a hash of at most 20 bytes comes back
\* byte for byte (and character for character when it was 0x-prefixed).
C7_RoundTrip ==
    codec.stage = "decoded" =>
        /\ codec.parsed # Null
        /\ codec.parsed.action = codec.action
        /\ codec.parsed.fid = codec.fid
        /\ ~codec.parsed.fid.nan
        /\ codec.parsed.hashHex = First20Bytes(codec.hashHex)
        /\ Len(HexDigitsOf(codec.hashHex)) <= 40 =>
               /\ HexDigitsOf(codec.parsed.hashHex) = HexDigitsOf(codec.hashHex)
               /\ HexDigitsOf(codec.hashHex) # codec.hashHex =>
                      codec.parsed.hashHex = codec.hashHex

\* A 32-byte hash and a two-digit fid through the round trip: the hash
\* comes back as its first 20 bytes.
C7_Witness ==
    /\ codec.stage = "decoded"
    /\ codec.action = UNRECAST
    /\ codec.fid.val >= 10
    /\ codec.hashHex = Hash32
    /\ codec.parsed.hashHex = Hash20
    /\ codec.parsed.fid = codec.fid

\* ------------------------------------------------------------------ C8

\* The number of ':'-delimited fields of a token.
FieldCount(data) == Cardinality({i \in 1..Len(data) : data[i] = ":"}) + 1

\* The handler answered "Unknown action." and did nothing else.
AnsweredUnknown ==
    /\ Len(last.trace) = 1
    /\ last.trace[1].api = "answerCallbackQuery"
    /\ last.trace[1].msg = "Unknown action."
    /\ session[last.conv].pending = last.before

Field(data, n) == Split(data, ":")[n]

\* C9: a three-field token whose action field is none of the seven kinds is
\* reported to the user as an unrecognized action: the handler answers the
\* callback query, throws nothing, calls no action-layer operation and
\* leaves the pending slot as it was.
C9_UnknownKindReported ==
    (/\ Admitted("callback_query:data")
     /\ FieldCount(last.data) = 3
     /\ Field(last.data, 1) \notin CastAction) =>
        /\ \E i \in 1..Len(last.trace) :
               last.trace[i].api = "answerCallbackQuery"
        /\ ~last.threw
        /\ ActionCalls(last.trace) = <<>>
        /\ session[last.conv].pending = last.before

\* ------------------------------------------------------------------ C10

IsDecimal(field) ==
    field # <<>> /\ \A i \in 1..Len(field) : field[i] \in DigitSet

IsHex(field) ==
    field # <<>> /\ \A i \in 1..Len(field) : field[i] \in HexDigitSet

\* A three-field token whose author id is not a decimal integer or whose
\* hash is empty or not hex.
Malformed(data) ==
    /\ FieldCount(data) = 3
    /\ ~IsDecimal(Field(data, 2)) \/ ~IsHex(Field(data, 3))

\* C10: a malformed three-field token is treated as an unknown action, so
\* it invokes no action-layer operation, changes no pending slot, and no
\* pending action ever has an author id that is not a number.
C10_FailsClosed ==
    /\ (Admitted("callback_query:data") /\ Malformed(last.data)) =>
           /\ AnsweredUnknown
           /\ ActionCalls(last.trace) = <<>>
    /\ \A c \in Convs :
           session[c].pending # Undefined => ~session[c].pending.targetFid.nan

\* ------------------------------------------------------------------ C11

\* C11: every token castCallbackData builds is at most 64 bytes long (its
\* characters are ASCII, one byte each), for every action kind, every
\* author id a number holds and every hash, whatever its length.
C11_TokenFits ==
    codec.stage = "encoded" => Len(codec.token) <= CallbackDataLimit

\* ------------------------------------------------------------------ C12

IsAnswer(call) == call.api = "answerCallbackQuery"

\* The position of the call whose rejection the handler had to deal with
\* (0: no such call).
FailureAt(trace) ==
    IF \E i \in 1..Len(trace) : ~trace[i].ok /\ ~trace[i].caught
    THEN CHOOSE i \in 1..Len(trace) :
             /\ ~trace[i].ok /\ ~trace[i].caught
             /\ \A j \in 1..(i - 1) : trace[j].ok \/ trace[j].caught
    ELSE 0

\* C12: when an action-layer call or a node read fails while an update is
\* handled, the handler makes exactly one response after it, and a callback
\* query is never answered twice.
C12_OneResponsePerFailure ==
    LET i == FailureAt(last.trace)
    IN  (i # 0 /\ (IsActionCall(last.trace[i]) \/ IsReadCall(last.trace[i])))
        =>
        /\ Len(ChatCalls(SubSeq(last.trace, i + 1, Len(last.trace)))) = 1
        /\ Len(SelectSeq(last.trace, IsAnswer)) <= 1

\* ------------------------------------------------------------------ C13

\* The sender of an update is not on a list that is not empty.
Refused(update) ==
    /\ update.kind # "none"
    /\ ALLOWED_USERS # {}
    /\ update.from \notin ALLOWED_USERS

\* C13: with a non-empty allow-list, an update (command, button press or
\* text) from a user who is not on it causes no action-layer call and no
\* node read and changes no conversation's pending slot; with an empty list
\* every user is served: a /post with text from any user reaches postCast.
C13_AllowList ==
    /\ [](Refused(last) =>
              /\ ActionCalls(last.trace) = <<>>
              /\ ReadCalls(last.trace) = <<>>)
    /\ [][Refused(last') => session' = session]_vars
    /\ []((ALLOWED_USERS = {} /\ last.kind = "post"
              /\ Trim(last.data) # <<>>) =>
              /\ Len(ActionCalls(last.trace)) = 1
              /\ ActionCalls(last.trace)[1].api = "postCast")

\* A text from a user who is not on the list, handled while a reply pressed
\* by a listed user is pending in the same chat: nothing is called and the
\* reply stays pending.
C13_Witness ==
    /\ Refused(last)
    /\ last.kind = "message:text"
    /\ Trim(last.data) # <<>>
    /\ last.before.type = "reply"
    /\ last.trace = <<>>
    /\ session[last.conv].pending = last.before

\* ------------------------------------------------------------------ C14

\* The tokens on the Like and the Recast button of a keyboard.
LikeButton(kb) == Keyboard(kb)[1]
RecastButton(kb) == Keyboard(kb)[2]

\* The action kind a token carries.
KindOf(token) == Field(token, 1)

\* C14: after a press of a button under the displayed cast, by an admitted
\* user, whose calls all succeeded, a like leaves the unlike token on the like button and an
\* unlike the like token, both leaving the recast button as it was; a
\* recast leaves the unrecast token on the recast button and an unrecast
\* the recast token, both leaving the like button as it was.
C14_Toggles ==
    [][(/\ last'.kind = "callback_query:data"
        /\ (ALLOWED_USERS = {} \/ last'.from \in ALLOWED_USERS)
        /\ last'.trace # <<>>
        /\ \A i \in 1..Len(last'.trace) : last'.trace[i].ok) =>
          LET a == KindOf(last'.data)
          IN  /\ a = LIKE =>
                     /\ KindOf(LikeButton(shown')) = UNLIKE
                     /\ RecastButton(shown') = RecastButton(shown)
              /\ a = UNLIKE =>
                     /\ KindOf(LikeButton(shown')) = LIKE
                     /\ RecastButton(shown') = RecastButton(shown)
              /\ a = RECAST =>
                     /\ KindOf(RecastButton(shown')) = UNRECAST
                     /\ LikeButton(shown') = LikeButton(shown)
              /\ a = UNRECAST =>
                     /\ KindOf(RecastButton(shown')) = RECAST
                     /\ LikeButton(shown') = LikeButton(shown)]_vars

\* ------------------------------------------------------------------ C15

\* A hash written as hex digits, two per byte, with or without 0x.
WellFormed(hashHex) ==
    /\ IsHex(HexDigitsOf(hashHex))
    /\ Len(HexDigitsOf(hashHex)) % 2 = 0

\* A cast reference as the submitted message carries it is the one given:
\* the same author id and, for a well-formed hash, the same bytes.
SameReference(castId, fid, hashHex) ==
    /\ castId.fid = fid
    /\ WellFormed(hashHex) => bytesToHex(castId.hash) = Ox(HexDigitsOf(hashHex))

\* The operation has handed a message to the node client.
Submitted(name) ==
    /\ op.stage \in {"returned", "threw"}
    /\ op.name = name
    /\ op.submitted # <<>>

\* The parent reference an invocation was given, if any.
ParentGiven ==
    CASE op.name = "replyCast" ->
           [fid |-> op.args.fid, hash |-> op.args.hashHex]
      [] op.name = "postCast" -> op.args.parentCastId
      [] OTHER -> Undefined

\* C15: the message replyCast(text, fid, hash) submits is one that
\* postCast({text, parentCastId: {fid, hash}}) submits; a cast submitted by
\* postCast, replyCast or quoteCast carries a parentCastId exactly when a
\* parent reference was given, and it is then that reference; in particular
\* postCast without a parent submits a cast with no parentCastId.
C15_ReplyIsPostWithParent ==
    /\ Submitted("replyCast") =>
           Ok(op.submitted[1]) \in
               MakeResults(postCast(CastOptions(
                   op.args.text, Undefined,
                   [fid |-> op.args.fid, hash |-> op.args.hashHex],
                   Undefined)))
    /\ \A name \in {"postCast", "replyCast", "quoteCast"} :
           Submitted(name) =>
               LET body == op.submitted[1].data.body
               IN  /\ "parentCastId" \in DOMAIN body <=> ParentGiven # Undefined
                   /\ ParentGiven # Undefined =>
                          SameReference(body.parentCastId, ParentGiven.fid,
                                        ParentGiven.hash)

\* A reply to a cast with a 20-byte hash has been accepted by the node.
C15_Witness ==
    /\ Submitted("replyCast")
    /\ op.stage = "returned"
    /\ op.args.hashHex = Hash20
    /\ Len(op.submitted[1].data.body.parentCastId.hash) = 20
    /\ op.submitted[1].data.body.text = Nice

\* ------------------------------------------------------------------ C16

\* C16: the cast quoteCast(text, fid, hash) submits has exactly one embed,
\* a cast reference to (fid, hash) and not a URL, and no parent (neither a
\* parent cast nor a parent URL); the embeds of a cast postCast submits are
\* the URLs it was given, each as a URL embed and none as a cast reference.
C16_QuoteEmbedsCastReference ==
    /\ Submitted("quoteCast") =>
           LET body == op.submitted[1].data.body
           IN  /\ Len(body.embeds) = 1
               /\ DOMAIN body.embeds[1] = {"castId"}
               /\ SameReference(body.embeds[1].castId, op.args.fid,
                                op.args.hashHex)
               /\ "parentCastId" \notin DOMAIN body
               /\ "parentUrl" \notin DOMAIN body
    /\ Submitted("postCast") =>
           LET body == op.submitted[1].data.body
               urls == IF op.args.embeds = Undefined THEN <<>>
                       ELSE op.args.embeds.items
           IN  /\ Len(body.embeds) = Len(urls)
               /\ \A i \in 1..Len(urls) :
                      /\ DOMAIN body.embeds[i] = {"url"}
                      /\ body.embeds[i].url = urls[i]

\* A quote of a cast with a 20-byte hash has been accepted by the node.
C16_Witness ==
    /\ Submitted("quoteCast")
    /\ op.stage = "returned"
    /\ op.args.hashHex = Hash20
    /\ Len(op.submitted[1].data.body.embeds[1].castId.hash) = 20

\* ------------------------------------------------------------------ C17

\* C17: an invocation of any of the eight operations hands at most one
\* message to the node client: exactly one, the message built, once
\* construction and signing have succeeded, and none when they failed; the
\* error of the failed construction or of the refused submit is the error
\* the caller gets, unchanged, and nothing is submitted after it.
C17_SingleShot ==
    op.stage # "idle" =>
        /\ Len(op.submitted) <= 1
        /\ op.stage \in {"called", "made"} => op.submitted = <<>>
        /\ (op.result # Undefined /\ op.result.isErr) =>
               /\ op.stage = "threw"
               /\ op.submitted = <<>>
               /\ op.thrown = op.result.error
        /\ op.rpc # Undefined =>
               /\ ~op.result.isErr
               /\ op.submitted = <<op.result.value>>
        /\ (op.rpc # Undefined /\ op.rpc.isErr) =>
               /\ op.stage = "threw"
               /\ op.thrown = op.rpc.error
        /\ op.stage = "returned" =>
               /\ ~op.rpc.isErr
               /\ op.returned = op.rpc.value
               /\ op.thrown = Undefined

\* A like whose message was built and signed and then refused by the node.
C17_Witness ==
    /\ op.stage = "threw"
    /\ op.name = "likeCast"
    /\ op.rpc # Undefined
    /\ op.rpc.isErr
    /\ Len(op.submitted) = 1
    /\ op.thrown = op.rpc.error

\* ------------------------------------------------------------------ C18

\* Both credential forms are supplied, or neither is.
BothGiven(env) ==
    Configured(env.SIGNER_PRIVATE_KEY) /\ Configured(env.SIGNER_MNEMONIC)
NeitherGiven(env) ==
    ~Configured(env.SIGNER_PRIVATE_KEY) /\ ~Configured(env.SIGNER_MNEMONIC)

\* C18: signerFromEnv returns a signer only when exactly one of
\* SIGNER_PRIVATE_KEY and SIGNER_MNEMONIC is supplied: with neither it
\* throws the configuration error, and with both it returns no signer.
C18_ExactlyOneCredential ==
    (signer.stage = "done" /\ signer.call = "signerFromEnv") =>
        /\ NeitherGiven(signer.env) =>
               /\ signer.outcome.threw
               /\ signer.outcome.error.message[1]
                      = "No signing key configured. Set SIGNER_PRIVATE_KEY or SIGNER_MNEMONIC in .env"
        /\ BothGiven(signer.env) => signer.outcome.threw

\* ------------------------------------------------------------------ C19

\* The key is 64 hex digits, with or without a 0x prefix.
Is32ByteHex(hexKey) ==
    /\ Len(HexDigitsOf(hexKey)) = 64
    /\ IsHex(HexDigitsOf(hexKey))

\* C19: signerFromPrivateKey returns a signer only for a key of 64 hex
\* digits (with or without 0x), a signer that holds the 32 bytes they
\* denote; any other input is rejected with the error that names the
\* expected and the actual byte count.
C19_Only32Bytes ==
    (signer.stage = "done" /\ signer.call = "signerFromPrivateKey") =>
        /\ Is32ByteHex(signer.hexKey) =>
               /\ ~signer.outcome.threw
               /\ Len(signer.outcome.value.privateKey) = 32
               /\ bytesToHex(signer.outcome.value.privateKey)
                      = Ox(HexDigitsOf(signer.hexKey))
        /\ ~Is32ByteHex(signer.hexKey) =>
               /\ signer.outcome.threw
               /\ signer.outcome.error.message[1]
                      = "Private key must be 32 bytes (64 hex chars), got "

\* ------------------------------------------------------------------ C20

\* C20: handling a press of Reply or Quote calls neither the action layer
\* nor the node: it writes the pending slot and answers and prompts in the
\* chat; replyCast and quoteCast are called only while a later text message
\* that is not blank is handled, for an action that was pending when it
\* arrived; and /cancel calls nothing but the chat, so there is never a
\* submission of the pending action for it to abort.
C20_NoSubmitBeforeText ==
    /\ IsBegin(last) =>
           /\ \A i \in 1..Len(last.trace) : IsChatCall(last.trace[i])
           /\ Admitted("callback_query:data") =>
                  session[last.conv].pending.type \in PendingTypes
    /\ \A i \in 1..Len(last.trace) :
           last.trace[i].api \in {"replyCast", "quoteCast"} =>
               /\ last.kind = "message:text"
               /\ Trim(last.data) # <<>>
               /\ last.before # Undefined
    /\ last.kind = "cancel" =>
           \A i \in 1..Len(last.trace) : IsChatCall(last.trace[i])

\* A press of Quote under a displayed cast has been answered and prompted:
\* the quote is pending and nothing has been submitted.
C20_Witness ==
    /\ \E cast \in Casts : IsBeginPress(QUOTE, cast)
    /\ Len(last.trace) = 2
    /\ last.trace[1].api = "answerCallbackQuery" /\ last.trace[1].ok
    /\ last.trace[2].api = "reply" /\ last.trace[2].ok
    /\ session[last.conv].pending.type = "quote"

\* ------------------------------------------------------------------ C21

\* The replyCast and quoteCast calls of a trace.
IsSubmission(call) == call.api \in {"replyCast", "quoteCast"}
Submissions(trace) == SelectSeq(trace, IsSubmission)

AdmittedUpdate(update) ==
    ALLOWED_USERS = {} \/ update.from \in ALLOWED_USERS

\* The update is a text that is not blank.
IsText(update) ==
    update.kind = "message:text" /\ Trim(update.data) # <<>>

\* C22: handling an update changes no pending slot but that of its own
\* conversation, and that one only when the update, from an admitted user,
\* is a press of Reply or Quote (the slot is then set), /cancel (cleared) or
\* a text that is not blank while an action is pending (cleared). /start,
\* /node, /post, /feed, /profile, the other buttons, tokens that do not
\* decode, blank text and updates of users not admitted change nothing.
C22_PendingFrame ==
    [][last'.kind # "none" =>
          \A c \in Convs :
              session'[c] # session[c] =>
                  /\ c = last'.conv
                  /\ AdmittedUpdate(last')
                  /\ \/ /\ IsBegin(last')
                        /\ session'[c].pending.type \in PendingTypes
                     \/ /\ last'.kind = "cancel"
                        /\ session'[c].pending = Undefined
                     \/ /\ IsText(last')
                        /\ session[c].pending # Undefined
                        /\ session'[c].pending = Undefined]_vars

\* A press of Like that succeeded while a quote was pending: the quote is
\* still pending.
C22_Witness ==
    /\ Admitted("callback_query:data")
    /\ KindOf(last.data) = LIKE
    /\ Len(last.trace) = 3
    /\ \A i \in 1..3 : last.trace[i].ok
    /\ last.before.type = "quote"
    /\ session[last.conv].pending = last.before

\* ------------------------------------------------------------------ C23

\* The bot told the user that handling the update failed: the reply of a
\* catch block ("Failed", "Failed to post") or its answer to a press.
IsFailureMessage(call) ==
    \/ call.api = "reply" /\ call.msg \in {"Failed", "Failed to post"}
    \/ call.api = "answerCallbackQuery" /\ call.msg = "error"

\* The node accepted a message: an action-layer call that resolved.
IsAccepted(call) == IsActionCall(call) /\ call.ok

\* C23: when the bot sends a failure message for an update, no action-layer
\* call made for that update was accepted by the node.
C23_FailureMeansNothingAccepted ==
    (\E i \in 1..Len(last.trace) : IsFailureMessage(last.trace[i])) =>
        SelectSeq(last.trace, IsAccepted) = <<>>

\* ------------------------------------------------------------------ C24

\* The press was reported as an error: a call of the try block rejected and
\* the answer of the catch block was delivered.
ReportedAsError ==
    /\ FailureAt(last.trace) # 0
    /\ FailureAt(last.trace) < Len(last.trace)
    /\ last.trace[Len(last.trace)].api = "answerCallbackQuery"
    /\ last.trace[Len(last.trace)].msg = "error"
    /\ last.trace[Len(last.trace)].ok

\* C24: a press of Reply or Quote under a cast leaves its conversation
\* awaiting text for that cast (the kind pressed, the author id and the
\* first 20 bytes of the hash) also when the acknowledgement or the prompt
\* could not be sent and the press was reported as an error: the slot is
\* written before the first call is awaited.
C24_PendingWrittenFirst ==
    \A cast \in Casts :
        /\ (IsBeginPress(REPLY, cast) /\ ReportedAsError) =>
               session[last.conv].pending
                   = Pending("reply", cast.fid, First20Bytes(cast.hashHex))
        /\ (IsBeginPress(QUOTE, cast) /\ ReportedAsError) =>
               session[last.conv].pending
                   = Pending("quote", cast.fid, First20Bytes(cast.hashHex))

\* A press of Reply in an idle conversation whose acknowledgement was
\* rejected: the error was answered, nothing was prompted, and the reply is
\* pending.
C24_Witness ==
    /\ \E cast \in Casts : IsBeginPress(REPLY, cast)
    /\ last.before = Undefined
    /\ Len(last.trace) = 2
    /\ ~last.trace[1].ok
    /\ ReportedAsError
    /\ session[last.conv].pending.type = "reply"

====
